---- MODULE Spec2Model ----
(***************************************************************************)
(* Pokemon Connections: board generation (startGame and its group          *)
(* builders) and the guess / reveal state machine, for the two versions    *)
(* of the script kept in the repository:                                   *)
(*   "gen1"  src/script.js          pool = the literal GEN1 list           *)
(*   "gens"  src/unnamed/part_001   pool built from the generation         *)
(*                                  endpoints and cached in poolCache      *)
(* Identifiers are modelled as the integers 1..NumNames, in the order of   *)
(* the catalog; the remote catalog's answers (types, evolution chain,      *)
(* generation, legendary flag) are the definitions of the section          *)
(* "catalog", and every remote lookup has an outcome drawn from a small    *)
(* set.                                                                    *)
(***************************************************************************)
EXTENDS Integers, Sequences, FiniteSets, TLC

VARIABLES impl, cardData, selected, solutions, status, progress, poolCache,
          requests, gen, claimed

vars == <<impl, cardData, selected, solutions, status, progress, poolCache,
          requests, gen, claimed>>

\* ------------------------------------------------------------ constants
MAX_GROUPS == 4
GROUP_SIZE == 4
MAX_BOARD == MAX_GROUPS * GROUP_SIZE
MAX_GEN == 7

\* ---------------------------------------------------------------- bounds
\* The catalog lists MAX_BOARD + ExtraNames identifiers.
ExtraNames == 1
\* startGame is called at most MaxRequests times (the call at load included).
MaxRequests == 2
\* The player clicks within ClickWindow consecutive cards of the board.
ClickWindow == 5

NumNames == MAX_BOARD + ExtraNames
Names == 1..NumNames

\* JavaScript values that are no identifier
Null == <<>>
Undefined == 0
NoChain == 0
NoType == 0

\* ------------------------------------------------------- sequence helpers
Range(s) == {s[i] : i \in 1..Len(s)}

Includes(s, x) == \E i \in 1..Len(s) : s[i] = x

\* Array.prototype.indexOf, 1-based; 0 when absent (JavaScript's -1)
IndexOf(s, x) ==
    IF Includes(s, x) THEN CHOOSE i \in 1..Len(s) : s[i] = x /\ \A j \in 1..(i - 1) : s[j] # x
    ELSE 0

\* Array.prototype.splice(idx, 1)
Splice(s, idx) == SubSeq(s, 1, idx - 1) \o SubSeq(s, idx + 1, Len(s))

\* Array.prototype.slice(0, n)
Slice(s, n) == SubSeq(s, 1, IF n < Len(s) THEN n ELSE Len(s))

Reverse(s) == [i \in 1..Len(s) |-> s[Len(s) + 1 - i]]

Rotate(s) == IF s = <<>> THEN s ELSE Tail(s) \o <<Head(s)>>

RECURSIVE Flat(_)
Flat(ss) == IF ss = <<>> THEN <<>> ELSE Head(ss) \o Flat(Tail(ss))

\* The pool returned as it was built, repetitions included.
UniqueKeep(s) == s

\* Array.from(new Set(pool)): first occurrences, in order
RECURSIVE Unique(_)
Unique(s) ==
    IF s = <<>> THEN <<>>
    ELSE LET r == Unique(SubSeq(s, 1, Len(s) - 1))
             x == s[Len(s)]
         IN  IF Includes(r, x) THEN r ELSE Append(r, x)

\* The permutations shuffle may produce, restricted to the kinds in K.
Shuffles(s, K) ==
    {s : k \in K \cap {"id"}} \cup {Reverse(s) : k \in K \cap {"rev"}}
        \cup {Rotate(s) : k \in K \cap {"rot"}}

\* ---------------------------------------------------------------- catalog
\* What the remote catalog answers for each identifier when it answers.
\* Primary type first; even identifiers also list a secondary type.
PrimaryTypeOf(n) ==
    IF n <= 4 THEN 1
    ELSE IF n \in {5, 6, 9, 10} THEN 2
    ELSE IF n \in {7, 8, 11, 12} THEN 3
    ELSE IF n = 13 THEN 5
    ELSE 4

TypesOf(n) == IF n % 2 = 0 THEN <<PrimaryTypeOf(n), 6>> ELSE <<PrimaryTypeOf(n)>>

\* evolution_chain.url of the species: 5..8 form one family, 9 and 10 another.
ChainOf(n) == IF n \in 5..8 THEN 5 ELSE IF n \in 9..10 THEN 9 ELSE n

\* The generation endpoint (1..MAX_GEN) that lists the species.
UnitOf(n) ==
    IF n <= 15 THEN ((n - 1) \div 3) + 1
    ELSE IF n = 16 THEN MAX_GEN - 1
    ELSE MAX_GEN

IsLegendarySpecies(n) == n >= 15

\* pokemon_species of generation u, in listing order; the last endpoint lists
\* identifier 16 a second time.
GenSpecies(u) ==
    LET S == {n \in Names : UnitOf(n) = u}
        RECURSIVE Asc(_)
        Asc(T) == IF T = {} THEN <<>>
                  ELSE LET m == CHOOSE x \in T : \A y \in T : x <= y
                       IN  <<m>> \o Asc(T \ {m})
    IN  IF u = MAX_GEN THEN <<16>> \o Asc(S) ELSE Asc(S)

\* The GEN1 literal of script.js (all catalog identifiers, in order).
GEN1 == [i \in 1..NumNames |-> i]

\* The hard-coded lists of rare identifiers, restricted to the catalog.
LegendaryNames(im) == IF im = "gen1" THEN <<15, 16>> ELSE <<13, 14, 15, 16, 17>>

\* Outcomes of one metadata lookup: both requests answered; the pokemon
\* request answered and the species request failed; the pokemon request failed.
Outcomes == {"ok", "nospecies", "fail"}

\* fetchPokemonData(name): the record built from the outcome o of its requests.
FetchPokemonData(name, o, im) ==
    IF o = "ok" /\ name \in Names
    THEN [name |-> name, types |-> TypesOf(name), is_legendary |-> IsLegendarySpecies(name),
          generation |-> UnitOf(name), evolution_chain |-> ChainOf(name)]
    ELSE IF o = "nospecies" /\ name \in Names /\ im = "gens"
    THEN [name |-> name, types |-> TypesOf(name), is_legendary |-> FALSE,
          generation |-> 0, evolution_chain |-> NoChain]
    ELSE [name |-> name, types |-> <<>>, is_legendary |-> FALSE,
          generation |-> 0, evolution_chain |-> NoChain]

\* meta.types && meta.types.length ? meta.types[0].type.name : null
PrimaryType(meta) == IF Len(meta.types) > 0 THEN meta.types[1] ELSE NoType

\* A pattern gives each identifier the outcome of its lookup during one call.
PatAll(o) == [n \in Names |-> o]
PatFail(S) == [n \in Names |-> IF n \in S THEN "fail" ELSE "ok"]
PatNoSpecies(S) == [n \in Names |-> IF n \in S THEN "nospecies" ELSE "ok"]

\* ------------------------------------------------------------- utilities
\* Only the first item is taken out of the pool.
RemoveFromPoolFirst(pool, items) ==
    IF items = <<>> \/ ~Includes(pool, Head(items)) THEN pool
    ELSE Splice(pool, IndexOf(pool, Head(items)))

\* removeFromPool(pool, items): each item's first occurrence is spliced out.
RECURSIVE RemoveFromPool(_, _)
RemoveFromPool(pool, items) ==
    IF items = <<>> THEN pool
    ELSE LET idx == IndexOf(pool, Head(items))
         IN  RemoveFromPool(IF idx >= 1 THEN Splice(pool, idx) ELSE pool, Tail(items))

\* sampleArray(arr, n), given the shuffled copy a
SampleArray(a, n) == Slice(a, n)

\* ------------------------------------------------------- group builders
\* buildTypeGroup(pool, size): sample is the shuffled copy of the pool, out the
\* outcomes of the lookups; Null when no bucket reaches size.
RECURSIVE TypeScan(_, _, _, _, _)
TypeScan(sample, size, out, im, typeMembers) ==
    IF sample = <<>> THEN Null
    ELSE LET name == Head(sample)
             primaryType == PrimaryType(FetchPokemonData(name, out[name], im))
         IN  IF primaryType = NoType THEN TypeScan(Tail(sample), size, out, im, typeMembers)
             ELSE LET bucket == Append(typeMembers[primaryType], name)
                  IN  IF Len(bucket) >= size THEN Slice(bucket, size)
                      ELSE TypeScan(Tail(sample), size, out, im,
                                    [typeMembers EXCEPT ![primaryType] = bucket])

\* The first size items of the sample, whatever their types.
BuildTypeGroupUntyped(sample, size, out, im) ==
    IF Len(sample) >= size THEN Slice(sample, size) ELSE Null

BuildTypeGroup(sample, size, out, im) ==
    TypeScan(sample, size, out, im, [t \in 1..6 |-> <<>>])

\* buildEvolutionGroup(pool, minSize): chainMap is kept as the sequence of its
\* buckets in insertion order (the order of Object.keys).
RECURSIVE EvoScan(_, _, _, _, _)
EvoScan(pool, minSize, out, im, chainMap) ==
    IF pool = <<>>
    THEN LET lens == {Len(chainMap[k].members) : k \in 1..Len(chainMap)}
         IN  IF chainMap = <<>> THEN Null
             ELSE LET top == CHOOSE l \in lens : \A m \in lens : m <= l
                      k == CHOOSE i \in 1..Len(chainMap) :
                               /\ Len(chainMap[i].members) = top
                               /\ \A j \in 1..(i - 1) : Len(chainMap[j].members) < top
                  IN  chainMap[k].members
    ELSE LET name == Head(pool)
             chainUrl == FetchPokemonData(name, out[name], im).evolution_chain
         IN  IF chainUrl = NoChain THEN EvoScan(Tail(pool), minSize, out, im, chainMap)
             ELSE LET at == IF \E i \in 1..Len(chainMap) : chainMap[i].url = chainUrl
                            THEN CHOOSE i \in 1..Len(chainMap) : chainMap[i].url = chainUrl
                            ELSE 0
                      bucket == IF at = 0 THEN <<name>> ELSE Append(chainMap[at].members, name)
                      next == IF at = 0
                              THEN Append(chainMap, [url |-> chainUrl, members |-> bucket])
                              ELSE [chainMap EXCEPT ![at].members = bucket]
                  IN  IF Len(bucket) >= minSize THEN Slice(bucket, minSize)
                      ELSE EvoScan(Tail(pool), minSize, out, im, next)

BuildEvolutionGroup(pool, minSize, out, im) == EvoScan(pool, minSize, out, im, <<>>)

\* The loop "pop from the pool's tail, push unless already included" of the
\* rarity step (startGame) and of findSameTypeFiller. guarded: the loop also
\* stops on an empty pool (part_001's filler). pop() of an empty array is
\* undefined; once undefined is included the unguarded loop never ends (hang).
RECURSIVE PopFill(_, _, _, _)
PopFill(matches, pool, count, guarded) ==
    IF Len(matches) >= count THEN [items |-> matches, pool |-> pool, hang |-> FALSE]
    ELSE IF pool = <<>>
    THEN IF guarded THEN [items |-> matches, pool |-> pool, hang |-> FALSE]
         ELSE IF Includes(matches, Undefined)
         THEN [items |-> matches, pool |-> pool, hang |-> TRUE]
         ELSE PopFill(Append(matches, Undefined), pool, count, guarded)
    ELSE LET pick == pool[Len(pool)]
             rest == SubSeq(pool, 1, Len(pool) - 1)
         IN  IF Includes(matches, pick) THEN PopFill(matches, rest, count, guarded)
             ELSE PopFill(Append(matches, pick), rest, count, guarded)

\* The scan of findSameTypeFiller: pool items whose primary type is targetType,
\* in pool order, until count are found.
RECURSIVE FillerScan(_, _, _, _, _, _)
FillerScan(pool, targetType, count, out, im, matches) ==
    IF pool = <<>> THEN matches
    ELSE LET name == Head(pool)
             t == PrimaryType(FetchPokemonData(name, out[name], im))
             m == IF t = targetType THEN Append(matches, name) ELSE matches
         IN  IF Len(m) >= count THEN m
             ELSE FillerScan(Tail(pool), targetType, count, out, im, m)

\* findSameTypeFiller(pool, referenceName, count): refOut is the outcome of the
\* lookup of the reference, out those of the scan, a the shuffled copy that
\* sampleArray would use. The result carries the pool as the pops leave it.
FindSameTypeFiller(pool, referenceName, count, refOut, out, a, im) ==
    LET targetType == PrimaryType(FetchPokemonData(referenceName, refOut, im))
    IN  IF targetType = NoType
        THEN [items |-> SampleArray(a, count), pool |-> pool, hang |-> FALSE]
        ELSE PopFill(FillerScan(pool, targetType, count, out, im, <<>>),
                     pool, count, im = "gens")

\* The rarity step padding its group from the head of the pool.
LegendStepResultHead(pool, im) ==
    LET legends == LegendaryNames(im)
        found == Slice(SelectSeq(legends, LAMBDA n : Includes(pool, n)), GROUP_SIZE)
        r == PopFill(found, Reverse(pool), GROUP_SIZE, FALSE)
    IN  IF Len(found) >= 2 THEN [r EXCEPT !.pool = Reverse(@)]
        ELSE [items |-> Null, pool |-> pool, hang |-> FALSE]

\* The rarity step of startGame: Null when fewer than 2 listed identifiers are
\* in the pool.
LegendStepResult(pool, im) ==
    LET legends == LegendaryNames(im)
        found == Slice(SelectSeq(legends, LAMBDA n : Includes(pool, n)), GROUP_SIZE)
    IN  IF Len(found) >= 2 THEN PopFill(found, pool, GROUP_SIZE, FALSE)
        ELSE [items |-> Null, pool |-> pool, hang |-> FALSE]

\* ------------------------------------------------------------------ state
\* impl       which version of the script runs ("gen1" or "gens")
\* cardData   the board: [name, metadata, groupId, locked] per position
\* selected   the selected board positions, in click order
\* solutions  the groups lockSelection validates against
\* status     what statusEl shows: its text and, after a reveal, the hints
\* progress   the item addProgressItem appended last, as its verdict and group
\*            index (Null after resetState); the names an Incorrect item
\*            lists are those of the selection and are not repeated here
\* poolCache  part_001's cached pool ([set |-> FALSE] while it is null)
\* requests   the number of startGame calls so far
\* gen        the locals of each startGame call, by its number
\* claimed    the group indices reported Correct since the last startGame call
StGenerating == "Generating game..."
StFetching == "Fetching Pokemon metadata (this may take a few seconds)..."
StReady == "Game ready - find the 4 groups!"
StError == "Error generating game."
StSelectUpTo == "You can select up to 4 Pokemon per group."
StSelectExactly == "Select exactly 4 Pokemon to lock as a group."
StCorrect == "Correct! Group locked."
StIncorrect == "Not a correct group."
StWon == "Congratulations - you found all groups!"
StRevealing == "Hints: "

\* setStatus(txt)
SetStatus(txt) == [text |-> txt, hints |-> <<>>]

NoCache == [set |-> FALSE, names |-> <<>>]

Locals(pc, unit, pool, groups, evo, shuffled) ==
    [pc |-> pc, unit |-> unit, pool |-> pool, groups |-> groups, evo |-> evo,
     shuffled |-> shuffled]

Idle == Locals("idle", 0, <<>>, <<>>, <<>>, <<>>)
Finished == Locals("done", 0, <<>>, <<>>, <<>>, <<>>)

\* n.toLowerCase(): the identifiers of both pools are lower-case already
\* (GEN1 is a lower-case literal, getPoolForGens lower-cases what it pushes),
\* so it maps every identifier to itself; undefined has no such method.
ToLowerCase(n) == n

\* solutions.findIndex(g => g.includes(name)): 0-based, -1 when absent
FindGroup(sols, name) ==
    IF \E k \in 1..Len(sols) : Includes(sols[k], name)
    THEN (CHOOSE k \in 1..Len(sols) :
              Includes(sols[k], name) /\ \A j \in 1..(k - 1) : ~Includes(sols[j], name)) - 1
    ELSE -1

\* The synchronous start of startGame: setStatus, resetState, and the call of
\* getPoolForGens up to its first await (part_001) or GEN1.slice() (script.js).
StartLocals(im, cache) ==
    IF im = "gen1" THEN Locals("type", 0, GEN1, <<>>, <<>>, <<>>)
    ELSE IF cache.set THEN Locals("pool", 0, cache.names, <<>>, <<>>, <<>>)
    ELSE Locals("fetch", 1, <<>>, <<>>, <<>>, <<>>)

Init ==
    /\ impl \in {"gen1", "gens"}
    /\ cardData = <<>>
    /\ selected = <<>>
    /\ solutions = <<>>
    /\ status = SetStatus("")
    /\ progress = Null
    /\ poolCache = NoCache
    /\ requests = 1
    /\ gen = [g \in 1..MaxRequests |-> IF g = 1 THEN StartLocals(impl, NoCache) ELSE Idle]
    /\ claimed = {}

\* ------------------------------------------------------------- generation
\* startGame(), called by the New Game button: resetState and the start of a
\* new generation; generations already in flight keep running.
StartGame ==
    /\ requests < MaxRequests
    /\ requests' = requests + 1
    /\ cardData' = <<>>
    /\ selected' = <<>>
    /\ solutions' = <<>>
    /\ progress' = Null
    /\ status' = SetStatus("")
    /\ gen' = [gen EXCEPT ![requests + 1] = StartLocals(impl, poolCache)]
    /\ claimed' = {}
    /\ UNCHANGED <<impl, poolCache>>

\* The steps of one startGame call that touch only its own locals are written
\* as the set of locals each may leave; an action applies one step, and
\* GetPoolForGens / BuildGroups apply a whole run of them at once.

\* getPoolForGens: the answer of generation endpoint L.unit arrives. A unit in
\* flaky may answer not-OK (skipped) or make fetch throw (the loop is left);
\* after the last unit, or a throw, the pool is deduplicated and returned
\* (pc "pool").
FetchStepSet(L, flaky) ==
    {LET pool == IF o = "ok" THEN L.pool \o GenSpecies(L.unit) ELSE L.pool
     IN  IF o = "throw" \/ L.unit = MAX_GEN
         THEN Locals("pool", 0, Unique(pool), <<>>, <<>>, <<>>)
         ELSE [L EXCEPT !.unit = L.unit + 1, !.pool = pool] :
     o \in {"ok"} \cup (IF L.unit \in flaky THEN {"notok", "throw"} ELSE {})}

\* 1) the type-based group
TypeStepSet(L, P, K, im) ==
    {LET typeGroup == BuildTypeGroup(sample, GROUP_SIZE, out, im)
     IN  [L EXCEPT !.pc = "evo",
                   !.groups = IF typeGroup # Null THEN Append(@, typeGroup) ELSE @,
                   !.pool = IF typeGroup # Null THEN RemoveFromPool(@, typeGroup) ELSE @] :
     sample \in Shuffles(L.pool, K), out \in P}

\* 2) the evolution-family group; a partial bucket waits for its filler
EvoStepSet(L, P, im) ==
    {LET evoGroup == BuildEvolutionGroup(L.pool, GROUP_SIZE, out, im)
     IN  IF evoGroup = Null THEN [L EXCEPT !.pc = "legend"]
         ELSE IF Len(evoGroup) < GROUP_SIZE
         THEN [L EXCEPT !.pc = "filler", !.evo = evoGroup]
         ELSE [L EXCEPT !.pc = "legend",
                        !.groups = Append(@, Slice(evoGroup, GROUP_SIZE)),
                        !.pool = RemoveFromPool(@, Slice(evoGroup, GROUP_SIZE))] :
     out \in P}

\* findSameTypeFiller returns: the bucket and the filler are pushed as one
\* group. A filler loop that never ends leaves no successor.
FillerStepSet(L, P, K, im) ==
    LET evoGroup == L.evo
        results == {FindSameTypeFiller(L.pool, evoGroup[1], GROUP_SIZE - Len(evoGroup),
                                       ref[evoGroup[1]], out, a, im) :
                    ref \in P, out \in P, a \in Shuffles(L.pool, K)}
    IN  {[L EXCEPT !.pc = "legend", !.evo = <<>>,
                   !.groups = Append(@, evoGroup \o r.items),
                   !.pool = RemoveFromPool(r.pool, evoGroup \o r.items)] :
         r \in {x \in results : ~x.hang}}

\* 3) the legendary group
LegendStepSet(L, im) ==
    LET r == LegendStepResult(L.pool, im)
    IN  IF r.hang THEN {}
        ELSE {[L EXCEPT !.pc = "fallback",
                        !.groups = IF r.items # Null THEN Append(@, r.items) ELSE @,
                        !.pool = IF r.items # Null THEN RemoveFromPool(r.pool, r.items)
                                 ELSE @]}

\* The loop has no random pick: a turn without a type group adds nothing.
FallbackStepSetNoSample(L, P, K, im) ==
    LET found == {pr \in Shuffles(L.pool, K) \X P :
                     BuildTypeGroup(pr[1], GROUP_SIZE, pr[2], im) # Null}
    IN  {[L EXCEPT !.groups = Append(@, BuildTypeGroup(pr[1], GROUP_SIZE, pr[2], im)),
                   !.pool = RemoveFromPool(@, BuildTypeGroup(pr[1], GROUP_SIZE, pr[2], im))] :
         pr \in found}

\* 4) one turn of the loop that fills the remaining groups
FallbackStepSet(L, P, K, im) ==
    {LET typeGroup == BuildTypeGroup(sample, GROUP_SIZE, out, im)
         grp == IF typeGroup # Null THEN typeGroup ELSE SampleArray(a, GROUP_SIZE)
     IN  [L EXCEPT !.groups = Append(@, grp), !.pool = RemoveFromPool(@, grp)] :
     sample \in Shuffles(L.pool, K), out \in P, a \in Shuffles(L.pool, K)}

\* while (groups.length < MAX_GROUPS) is left
GroupsBuilt(L) == L.pc = "fallback" /\ Len(L.groups) >= MAX_GROUPS

\* The pool is complete when every endpoint has answered or one has thrown.
RECURSIVE RunFetch(_, _)
RunFetch(L, flaky) ==
    IF L.pc = "pool" THEN {L}
    ELSE UNION {RunFetch(M, flaky) : M \in FetchStepSet(L, flaky)}

\* Steps 1) to 4) in the order of startGame, up to the exit of the loop.
RECURSIVE RunGroups(_, _, _, _)
RunGroups(L, P, K, im) ==
    IF GroupsBuilt(L) THEN {L}
    ELSE UNION {RunGroups(M, P, K, im) :
                M \in IF L.pc = "type" THEN TypeStepSet(L, P, K, im)
                      ELSE IF L.pc = "evo" THEN EvoStepSet(L, P, im)
                      ELSE IF L.pc = "filler" THEN FillerStepSet(L, P, K, im)
                      ELSE IF L.pc = "legend" THEN LegendStepSet(L, im)
                      ELSE FallbackStepSet(L, P, K, im)}

\* poolCache = unique, when getPoolForGens returns
CacheAfter(M, cache) == IF M.pc = "pool" THEN [set |-> TRUE, names |-> M.pool] ELSE cache

\* One answer of a generation endpoint.
FetchGeneration(g, flaky) ==
    /\ gen[g].pc = "fetch"
    /\ \E M \in FetchStepSet(gen[g], flaky) :
          /\ gen' = [gen EXCEPT ![g] = M]
          /\ poolCache' = CacheAfter(M, poolCache)
    /\ UNCHANGED <<impl, cardData, selected, solutions, status, progress, requests, claimed>>

\* getPoolForGens from its first await to its return.
GetPoolForGens(g, flaky) ==
    /\ gen[g].pc = "fetch"
    /\ \E M \in RunFetch(gen[g], flaky) :
          /\ gen' = [gen EXCEPT ![g] = M]
          /\ poolCache' = CacheAfter(M, poolCache)
    /\ UNCHANGED <<impl, cardData, selected, solutions, status, progress, requests, claimed>>

\* Only a pool a whole group short is refused.
PoolTooSmallByGroup(pool) == Len(pool) < MAX_BOARD - GROUP_SIZE

\* !pool || pool.length < MAX_BOARD
PoolTooSmall(pool) == Len(pool) < MAX_BOARD

\* startGame after "await getPoolForGens": the size check, then the copy of
\* the pool is shuffled.
CheckPool(g, K) ==
    /\ gen[g].pc = "pool"
    /\ IF PoolTooSmall(gen[g].pool)
       THEN /\ status' = SetStatus(StError)
            /\ gen' = [gen EXCEPT ![g] = Finished]
       ELSE /\ \E candidatePool \in Shuffles(gen[g].pool, K) :
                  gen' = [gen EXCEPT ![g].pc = "type", ![g].pool = candidatePool]
            /\ UNCHANGED status
    /\ UNCHANGED <<impl, cardData, selected, solutions, progress, poolCache, requests, claimed>>

LocalStep(g, S) ==
    /\ \E M \in S : gen' = [gen EXCEPT ![g] = M]
    /\ UNCHANGED <<impl, cardData, selected, solutions, status, progress, poolCache,
                   requests, claimed>>

TypeGroupStep(g, P, K) ==
    gen[g].pc = "type" /\ LocalStep(g, TypeStepSet(gen[g], P, K, impl))

EvoGroupStep(g, P) ==
    gen[g].pc = "evo" /\ LocalStep(g, EvoStepSet(gen[g], P, impl))

FillerStep(g, P, K) ==
    gen[g].pc = "filler" /\ LocalStep(g, FillerStepSet(gen[g], P, K, impl))

LegendStep(g) ==
    gen[g].pc = "legend" /\ LocalStep(g, LegendStepSet(gen[g], impl))

FallbackStep(g, P, K) ==
    /\ gen[g].pc = "fallback"
    /\ ~GroupsBuilt(gen[g])
    /\ LocalStep(g, FallbackStepSet(gen[g], P, K, impl))

\* Steps 1) to 4) of one startGame call, from the first buildTypeGroup to the
\* exit of the fallback loop.
BuildGroups(g, P, K) ==
    gen[g].pc = "type" /\ LocalStep(g, RunGroups(gen[g], P, K, impl))

\* The loop is left: solutions is assigned, the board order is drawn and the
\* 16 lookups are issued. toLowerCase of undefined throws into the catch.
Assemble(g, K) ==
    /\ GroupsBuilt(gen[g])
    /\ IF \E k \in 1..Len(gen[g].groups) : Includes(gen[g].groups[k], Undefined)
       THEN /\ status' = SetStatus(StError)
            /\ gen' = [gen EXCEPT ![g] = Finished]
            /\ UNCHANGED solutions
       ELSE LET sols == [k \in 1..Len(gen[g].groups) |->
                            [i \in 1..Len(gen[g].groups[k]) |-> ToLowerCase(gen[g].groups[k][i])]]
            IN  /\ solutions' = sols
                /\ status' = SetStatus(StFetching)
                /\ \E shuffled \in Shuffles(Flat(sols), K) :
                      gen' = [gen EXCEPT ![g].pc = "metas", ![g].pool = <<>>,
                                         ![g].shuffled = shuffled]
    /\ UNCHANGED <<impl, cardData, selected, progress, poolCache, requests, claimed>>

\* The orders in which the lookups of n board entries may complete: in the
\* order issued, in the opposite order, and the first one last.
CompletionOrders(n) == Shuffles([i \in 1..n |-> i], {"id", "rev", "rot"})

\* The results stored in the order in which the lookups complete.
PromiseAllByArrival(names, out, order, im) ==
    [k \in 1..Len(order) |-> FetchPokemonData(names[order[k]], out[names[order[k]]], im)]

\* Promise.all(metaPromises): each lookup, when it completes, settles the
\* promise it was issued for; the result holds at index i the record of the
\* lookup that settled promise i, whichever place k it completed in.
PromiseAll(names, out, order, im) ==
    [i \in 1..Len(names) |->
        LET k == CHOOSE k \in 1..Len(order) : order[k] = i
        IN  FetchPokemonData(names[order[k]], out[names[order[k]]], im)]

\* The 16 lookups have returned: cardData is built against the current
\* solutions, the board is rendered and the ready status is set.
Publish(g, P) ==
    /\ gen[g].pc = "metas"
    /\ \E out \in P, order \in CompletionOrders(Len(gen[g].shuffled)) :
          LET metas == PromiseAll(gen[g].shuffled, out, order, impl)
          IN  cardData' = [i \in 1..Len(gen[g].shuffled) |->
                              LET name == gen[g].shuffled[i]
                              IN  [name |-> name,
                                   metadata |-> metas[i],
                                   groupId |-> FindGroup(solutions, name),
                                   locked |-> FALSE]]
    /\ status' = SetStatus(StReady)
    /\ gen' = [gen EXCEPT ![g] = Finished]
    /\ UNCHANGED <<impl, selected, solutions, progress, poolCache, requests, claimed>>

\* ------------------------------------------------------------- rendering
\* A card that carries its group index as an attribute.
RenderCardTagged(card) ==
    [name |-> card.name, types |-> card.metadata.types, locked |-> card.locked,
     group |-> card.groupId]

\* What renderBoard puts into the button of one card: data-name, the image
\* (its URL is computed from the name), the name, the types and the locked
\* class; data-idx is the card's position.
RenderCard(card) ==
    [name |-> card.name, types |-> card.metadata.types, locked |-> card.locked]

\* renderBoard()
RenderBoard(cards) == [i \in 1..Len(cards) |-> RenderCard(cards[i])]

\* renderSelection(): image and name of each selected card
RenderSelection(cards, sel) == [k \in 1..Len(sel) |-> cards[sel[k]].name]

\* --------------------------------------------------------------- the game
Positions == 1..Len(cardData)

\* The cards the player clicks: the ClickWindow consecutive board positions
\* that start at the first unlocked card, and any locked card.
ClickTargets ==
    LET unlocked == {p \in Positions : ~cardData[p].locked}
        first == IF unlocked = {} THEN 1
                 ELSE CHOOSE p \in unlocked : \A q \in unlocked : p <= q
    IN  {p \in Positions : cardData[p].locked \/ (first <= p /\ p < first + ClickWindow)}

\* The order of the player's clicks: cards are added to the selection in
\* ascending or in descending board order.
Ordered(sel, idx) ==
    IF Len(sel) <= 1 THEN TRUE
    ELSE IF \A k \in 1..(Len(sel) - 1) : sel[k] < sel[k + 1] THEN sel[Len(sel)] < idx
    ELSE IF \A k \in 1..(Len(sel) - 1) : sel[k] > sel[k + 1] THEN sel[Len(sel)] > idx
    ELSE FALSE

\* A selection counts as full only above GROUP_SIZE.
SelectionFullAbove(sel) == Len(sel) > GROUP_SIZE

\* selected.length >= GROUP_SIZE
SelectionFull(sel) == Len(sel) >= GROUP_SIZE

\* No click is ignored.
ClickIgnoredNever(card) == FALSE

\* if (card.locked) return
ClickIgnored(card) == card.locked

\* onCardClick(idx, el)
OnCardClick(idx) ==
    /\ idx \in ClickTargets
    /\ LET card == cardData[idx]
           selIndex == IndexOf(selected, idx)
       IN  IF ClickIgnored(card) THEN UNCHANGED <<selected, status>>
           ELSE IF selIndex >= 1
           THEN selected' = Splice(selected, selIndex) /\ UNCHANGED status
           ELSE IF SelectionFull(selected)
           THEN status' = SetStatus(StSelectUpTo) /\ UNCHANGED selected
           ELSE /\ Ordered(selected, idx)
                /\ selected' = Append(selected, idx)
                /\ UNCHANGED status
    /\ UNCHANGED <<impl, cardData, solutions, progress, poolCache, requests, gen, claimed>>

\* names.map(n => solutions.findIndex(g => g.includes(n))) as a set
GroupIds(sols, names) == {FindGroup(sols, names[i]) : i \in 1..Len(names)}

\* The win is declared one group early.
CheckWinEarly(cards) ==
    LET lockedCount == Cardinality({i \in 1..Len(cards) : cards[i].locked})
    IN  IF lockedCount >= MAX_BOARD - GROUP_SIZE THEN SetStatus(StWon) ELSE SetStatus(StCorrect)

\* checkWin(): the status after a Correct guess
CheckWin(cards) ==
    LET lockedCount == Cardinality({i \in 1..Len(cards) : cards[i].locked})
    IN  IF lockedCount = MAX_BOARD THEN SetStatus(StWon) ELSE SetStatus(StCorrect)

\* Only a selection above GROUP_SIZE is refused.
InvalidSelectionAbove(sel) == Len(sel) > GROUP_SIZE

\* selected.length !== GROUP_SIZE
InvalidSelectionSize(sel) == Len(sel) # GROUP_SIZE

\* groupIds.size === 1
IsCorrect(sols, names) == Cardinality(GroupIds(sols, names)) = 1

\* The Incorrect branch empties the group of the first selected entry.
IncorrectSolutionsCleared(sols, names) ==
    LET gid == FindGroup(sols, names[1])
    IN  IF gid >= 0 THEN [sols EXCEPT ![gid + 1] = <<>>] ELSE sols

\* The Incorrect branch of lockSelection writes no game state.
IncorrectSolutions(sols, names) == sols

\* lockSelection()
LockSelection ==
    /\ cardData # <<>> \/ selected = <<>>
    /\ IF InvalidSelectionSize(selected)
       THEN /\ status' = SetStatus(StSelectExactly)
            /\ UNCHANGED <<cardData, selected, solutions, progress, claimed>>
       ELSE LET names == [k \in 1..Len(selected) |-> cardData[selected[k]].name]
            IN  IF IsCorrect(solutions, names)
                THEN LET gid == CHOOSE x \in GroupIds(solutions, names) : TRUE
                         cards == [i \in Positions |->
                                      IF Includes(selected, i)
                                      THEN [cardData[i] EXCEPT !.locked = TRUE]
                                      ELSE cardData[i]]
                     IN  /\ cardData' = cards
                         /\ progress' = [ok |-> TRUE, gid |-> gid]
                         /\ solutions' = IF gid >= 0 THEN [solutions EXCEPT ![gid + 1] = <<>>]
                                         ELSE solutions
                         /\ selected' = <<>>
                         /\ status' = CheckWin(cards)
                         /\ claimed' = claimed \cup {gid}
                ELSE /\ progress' = [ok |-> FALSE, gid |-> -1]
                     /\ status' = SetStatus(StIncorrect)
                     /\ solutions' = IncorrectSolutions(solutions, names)
                     /\ UNCHANGED <<cardData, selected, claimed>>
    /\ UNCHANGED <<impl, poolCache, requests, gen>>

\* clearSelection()
ClearSelection ==
    /\ selected' = <<>>
    /\ status' = SetStatus("")
    /\ UNCHANGED <<impl, cardData, solutions, progress, poolCache, requests, gen, claimed>>

\* s.name for a string s: a string has no property "name".
NameOfString(s) == Undefined

\* m.generation && m.generation.name for a record of fetchPokemonData, whose
\* generation is null, absent, or the string species.generation.name.
GenerationName(meta) ==
    IF meta.generation = 0 THEN Undefined ELSE NameOfString(meta.generation)

\* inferHintForGroup(names)
InferHintForGroup(cards, names) ==
    LET metas == [k \in 1..Len(names) |->
                     cards[CHOOSE i \in 1..Len(cards) :
                               cards[i].name = names[k]
                               /\ \A j \in 1..(i - 1) : cards[j].name # names[k]].metadata]
        firstType == PrimaryType(metas[1])
        gen0 == GenerationName(metas[1])
        chain == metas[1].evolution_chain
    IN  IF metas = <<>> THEN "Unknown"
        ELSE IF firstType # NoType /\ \A k \in 1..Len(metas) : PrimaryType(metas[k]) = firstType
        THEN "All are <type> type"
        ELSE IF gen0 # Undefined /\ \A k \in 1..Len(metas) : GenerationName(metas[k]) = gen0
        THEN "All from <generation>"
        ELSE IF \A k \in 1..Len(metas) : metas[k].is_legendary
        THEN "All Legendary"
        ELSE IF chain # NoChain /\ \A k \in 1..Len(metas) : metas[k].evolution_chain = chain
        THEN "Same evolution family"
        ELSE "A shared connection"

\* The groupMap of revealAnswers in the order of Object.keys: the integer
\* keys ascending, then "-1".
GroupMap(cards) ==
    LET gids == {cards[i].groupId : i \in 1..Len(cards)}
        keys == SelectSeq([k \in 1..(MAX_BOARD + 1) |-> IF k <= MAX_BOARD THEN k - 1 ELSE -1],
                          LAMBDA k : k \in gids)
    IN  [j \in 1..Len(keys) |->
            [gid |-> keys[j],
             names |-> LET at == SelectSeq([i \in 1..Len(cards) |-> i],
                                           LAMBDA i : cards[i].groupId = keys[j])
                       IN  [i \in 1..Len(at) |-> cards[at[i]].name]]]

\* The border colours revealAnswers paints, per board position: 0 is
\* transparent, 1..4 the entries of colors. For each key of groupMap in turn,
\* querySelector finds the first card that carries the name; a later key
\* repaints what an earlier one painted.
BorderColors(cards) ==
    LET groupMap == GroupMap(cards)
        firstCard(name) == CHOOSE i \in 1..Len(cards) :
                               cards[i].name = name /\ \A j \in 1..(i - 1) : cards[j].name # name
        paints(i) == {j \in 1..Len(groupMap) :
                         \E k \in 1..Len(groupMap[j].names) :
                             firstCard(groupMap[j].names[k]) = i}
    IN  [i \in 1..Len(cards) |->
            IF paints(i) = {} THEN 0
            ELSE (((CHOOSE j \in paints(i) : \A h \in paints(i) : h <= j) - 1) % 4) + 1]

\* revealAnswers(): the hints go to the status line, the borders painted are
\* BorderColors(cardData) and last until the next renderBoard.
RevealAnswers ==
    /\ LET groupMap == GroupMap(cardData)
       IN  status' = [text |-> StRevealing,
                      hints |-> [j \in 1..Len(groupMap) |->
                                    InferHintForGroup(cardData, groupMap[j].names)]]
    /\ UNCHANGED <<impl, cardData, selected, solutions, progress, poolCache, requests, gen,
                   claimed>>

\* ---------------------------------------------------------- specification
\* Spec: the whole program, with up to MaxRequests startGame calls running
\* at once. The steps of a generation that touch only its locals are taken in
\* one action each for the pool and for the groups.
SpecPatterns == {PatAll("ok")}
SpecShuffles == {"id"}
SpecFlaky == {1}

Next ==
    \/ StartGame
    \/ \E g \in 1..MaxRequests : GetPoolForGens(g, SpecFlaky)
    \/ \E g \in 1..MaxRequests : CheckPool(g, SpecShuffles)
    \/ \E g \in 1..MaxRequests : BuildGroups(g, SpecPatterns, SpecShuffles)
    \/ \E g \in 1..MaxRequests : Assemble(g, SpecShuffles)
    \/ \E g \in 1..MaxRequests : Publish(g, {PatAll("ok")})
    \/ \E idx \in Positions : OnCardClick(idx)
    \/ LockSelection
    \/ ClearSelection
    \/ RevealAnswers

Spec == Init /\ [][Next]_vars

\* SpecGame: the player asks for a new game only when no generation is in
\* flight; more outcomes of the lookups and of the shuffles.
GamePatterns == {PatAll("ok"), PatFail(1..4)}
GameShuffles == {"id", "rev"}

NoneInFlight == \A g \in 1..MaxRequests : gen[g].pc \in {"idle", "done"}

NextGame ==
    \/ NoneInFlight /\ StartGame
    \/ \E g \in 1..MaxRequests : GetPoolForGens(g, SpecFlaky)
    \/ \E g \in 1..MaxRequests : CheckPool(g, {"id"})
    \/ \E g \in 1..MaxRequests : BuildGroups(g, GamePatterns, {"id"})
    \/ \E g \in 1..MaxRequests : Assemble(g, GameShuffles)
    \/ \E g \in 1..MaxRequests : Publish(g, {PatAll("ok")})
    \/ \E idx \in Positions : OnCardClick(idx)
    \/ LockSelection
    \/ ClearSelection
    \/ RevealAnswers

SpecGame == Init /\ [][NextGame]_vars

\* SpecGen: one startGame call alone, step by step, with more outcomes of the
\* lookups and of the shuffles.
GenPatterns ==
    {PatAll("ok"), PatAll("fail"), PatAll("nospecies"), PatFail(1..4), PatFail({6, 8, 10})}
GenShuffles == {"id", "rev", "rot"}
GenFlaky == {1, MAX_GEN}

NextGen ==
    \/ FetchGeneration(1, GenFlaky)
    \/ CheckPool(1, GenShuffles)
    \/ TypeGroupStep(1, GenPatterns, GenShuffles)
    \/ EvoGroupStep(1, GenPatterns)
    \/ FillerStep(1, GenPatterns, GenShuffles)
    \/ LegendStep(1)
    \/ FallbackStep(1, GenPatterns, GenShuffles)
    \/ Assemble(1, GenShuffles)
    \/ Publish(1, GenPatterns)

SpecGen == Init /\ [][NextGen]_vars

\* SpecSteps: up to MaxRequests startGame calls running at once, each step
\* by step, without the player's moves.
StepPatterns == {PatAll("ok"), PatFail(1..4)}
StepShuffles == {"id"}

NextSteps ==
    \/ StartGame
    \/ \E g \in 1..MaxRequests : FetchGeneration(g, SpecFlaky)
    \/ \E g \in 1..MaxRequests : CheckPool(g, StepShuffles)
    \/ \E g \in 1..MaxRequests : TypeGroupStep(g, StepPatterns, StepShuffles)
    \/ \E g \in 1..MaxRequests : EvoGroupStep(g, StepPatterns)
    \/ \E g \in 1..MaxRequests : FillerStep(g, StepPatterns, StepShuffles)
    \/ \E g \in 1..MaxRequests : LegendStep(g)
    \/ \E g \in 1..MaxRequests : FallbackStep(g, StepPatterns, StepShuffles)
    \/ \E g \in 1..MaxRequests : Assemble(g, StepShuffles)
    \/ \E g \in 1..MaxRequests : Publish(g, {PatAll("ok")})

SpecSteps == Init /\ [][NextSteps]_vars

\* ------------------------------------------------------------- properties
\* The identifiers of the selected entries, and of a set of board positions in
\* board order.
SelectedNames == [k \in 1..Len(selected) |-> cardData[selected[k]].name]

NamesAt(cards, S) ==
    LET at == SelectSeq([i \in 1..Len(cards) |-> i], LAMBDA i : i \in S)
    IN  [k \in 1..Len(at) |-> cards[at[k]].name]

\* The hidden groups of the selected entries, as recorded on the board.
SelectedGroups == {cardData[selected[k]].groupId : k \in 1..Len(selected)}

GroupOf(cards, gid) == {i \in 1..Len(cards) : cards[i].groupId = gid}

AllLocked(cards) == Len(cards) = MAX_BOARD /\ \A i \in 1..Len(cards) : cards[i].locked

\* lockSelection runs with exactly GROUP_SIZE entries selected.
GuessStep == LockSelection /\ Len(selected) = GROUP_SIZE

\* C1: every published board comes from four groups of four distinct
\* identifiers each, pairwise disjoint, sixteen identifiers in all.
C1_GroupsPartition ==
    cardData # <<>> =>
        /\ Len(solutions) = MAX_GROUPS
        /\ \A k \in 1..Len(solutions) :
              Len(solutions[k]) = GROUP_SIZE /\ Cardinality(Range(solutions[k])) = GROUP_SIZE
        /\ \A j, k \in 1..Len(solutions) :
              j # k => Range(solutions[j]) \cap Range(solutions[k]) = {}
        /\ Cardinality(Range(Flat(solutions))) = MAX_BOARD

\* C2: a guess of four entries is reported Correct, and locks exactly those
\* four, iff the four belong to one hidden group; otherwise it is reported
\* Incorrect and the board is left as it was.
C2_GuessVerdict ==
    [][GuessStep =>
          IF Cardinality(SelectedGroups) = 1 /\ SelectedGroups \subseteq 0..(MAX_GROUPS - 1)
          THEN /\ progress'.ok
               /\ \A i \in Positions :
                     cardData'[i].locked <=> (cardData[i].locked \/ Includes(selected, i))
          ELSE ~progress'.ok /\ cardData' = cardData]_vars

\* C3: a Correct guess never involves a locked entry, and no hidden group is
\* claimed twice in one session.
C3_ClaimedOnce ==
    [][GuessStep /\ IsCorrect(solutions, SelectedNames) =>
          /\ \A k \in 1..Len(selected) : ~cardData[selected[k]].locked
          /\ GroupIds(solutions, SelectedNames) \cap claimed = {}]_vars

\* C4: an Incorrect guess changes no lock flag, no selection and nothing of
\* the solution partition, so the verdict on the hidden group of each
\* guessed entry is what it was before the guess.
C4_IncorrectFrame ==
    [][GuessStep /\ ~IsCorrect(solutions, SelectedNames) =>
          /\ ~progress'.ok
          /\ cardData' = cardData
          /\ selected' = selected
          /\ solutions' = solutions
          /\ \A k \in 1..Len(selected) :
                LET G == GroupOf(cardData, cardData[selected[k]].groupId)
                IN  IsCorrect(solutions', NamesAt(cardData', G))
                        <=> IsCorrect(solutions, NamesAt(cardData, G))]_vars

C4_Witness ==
    /\ status.text = StIncorrect
    /\ progress # Null /\ ~progress.ok
    /\ Len(selected) = GROUP_SIZE
    /\ \E k \in 1..Len(selected) :
          LET G == GroupOf(cardData, cardData[selected[k]].groupId)
          IN  Cardinality(G) = GROUP_SIZE /\ IsCorrect(solutions, NamesAt(cardData, G))

C7_InvalidSize ==
    [][LockSelection /\ Len(selected) # GROUP_SIZE =>
          /\ status'.text = StSelectExactly
          /\ cardData' = cardData
          /\ selected' = selected
          /\ solutions' = solutions
          /\ progress' = progress]_vars

C7_Witness ==
    /\ status.text = StSelectExactly
    /\ cardData # <<>>
    /\ Len(selected) \in 1..(GROUP_SIZE - 1)

\* C8: between two new-game requests a locked entry stays locked.
C8_LocksMonotone ==
    [][requests' = requests =>
          \A i \in Positions :
              cardData[i].locked => (i \in DOMAIN cardData' /\ cardData'[i].locked)]_vars

\* C9: a generation that writes solutions or cardData is the one of the
\* latest new-game request.
C9_StaleDiscarded ==
    [][\A g \in 1..MaxRequests :
          (gen'[g] # gen[g] /\ gen[g].pc # "idle"
              /\ (solutions' # solutions \/ cardData' # cardData)) => g = requests]_vars

\* C10: while the error status is shown cardData and solutions are empty, and
\* a board, once there, has sixteen entries that fall into four hidden groups
\* of four and is published with the ready status.
C10_Atomic ==
    [][/\ status'.text = StError => (cardData' = <<>> /\ solutions' = <<>>)
       /\ cardData' # <<>> =>
             /\ Len(cardData') = MAX_BOARD
             /\ \A k \in 0..(MAX_GROUPS - 1) :
                   Cardinality(GroupOf(cardData', k)) = GROUP_SIZE
       /\ (cardData' # <<>> /\ cardData = <<>>) => status'.text = StReady]_vars

\* How far a startGame call is from its return: every step of the call
\* lowers it.
Rank(L) ==
    LET at == CASE L.pc = "fetch" -> 8 [] L.pc = "pool" -> 7 [] L.pc = "type" -> 6
                [] L.pc = "evo" -> 5 [] L.pc = "filler" -> 4 [] L.pc = "legend" -> 3
                [] L.pc = "fallback" -> 2 [] L.pc = "metas" -> 1 [] OTHER -> 0
    IN  at * 10 + (IF L.pc = "fetch" THEN MAX_GEN - L.unit
                   ELSE IF L.pc = "fallback" THEN MAX_GROUPS - Len(L.groups)
                   ELSE 0)

\* The call can go on once the lookups it awaits return: whatever they
\* answer, none of its loops spins for ever and each step has an outcome.
CanStep(L, P, K, im) ==
    /\ L.pc = "type" => TypeStepSet(L, P, K, im) # {}
    /\ L.pc = "evo" => EvoStepSet(L, P, im) # {}
    /\ L.pc = "filler" =>
          \A ref \in P, out \in P, a \in Shuffles(L.pool, K) :
              ~FindSameTypeFiller(L.pool, L.evo[1], GROUP_SIZE - Len(L.evo),
                                  ref[L.evo[1]], out, a, im).hang
    /\ L.pc = "legend" => ~LegendStepResult(L.pool, im).hang
    /\ (L.pc = "fallback" /\ ~GroupsBuilt(L)) => FallbackStepSet(L, P, K, im) # {}

C12_InsufficientPool ==
    [][/\ (gen[1].pc = "pool" /\ gen'[1] # gen[1]) =>
             IF Len(gen[1].pool) < MAX_BOARD
             THEN /\ status'.text = StError
                  /\ gen'[1] = Finished
                  /\ cardData' = cardData /\ solutions' = solutions
             ELSE /\ status' = status
                  /\ gen'[1].pc = "type"
                  /\ Range(gen'[1].pool) = Range(gen[1].pool)
       /\ (status'.text = StError /\ status.text # StError) =>
             (impl = "gens" /\ gen[1].pc = "pool" /\ Len(gen[1].pool) < MAX_BOARD)]_vars

C12_Witness ==
    /\ impl = "gens"
    /\ status.text = StError
    /\ gen[1] = Finished
    /\ poolCache.set /\ Len(poolCache.names) < MAX_BOARD
    /\ cardData = <<>> /\ solutions = <<>>

\* C13: on a published board every identifier of the groups is at exactly one
\* position, every position holds an identifier of the groups, and each
\* entry's groupId is the index of the group that contains its identifier.
C13_BoardBijection ==
    cardData # <<>> =>
        /\ Len(cardData) = MAX_BOARD
        /\ \A n \in Range(Flat(solutions)) :
              Cardinality({i \in Positions : cardData[i].name = n}) = 1
        /\ \A i \in Positions :
              /\ Includes(Flat(solutions), cardData[i].name)
              /\ cardData[i].groupId \in 0..(MAX_GROUPS - 1)
              /\ Includes(solutions[cardData[i].groupId + 1], cardData[i].name)

\* C14: revealAnswers paints every one of the 16 positions, two positions
\* alike iff they come from the same group, four groups of four, claimed
\* groups included, with one hint per group; and it changes no lock flag, no
\* selection and no solution.
C14_RevealAll ==
    [][(RevealAnswers /\ cardData # <<>>) =>
          LET color == BorderColors(cardData)
          IN  /\ cardData' = cardData /\ selected' = selected /\ solutions' = solutions
              /\ Len(status'.hints) = MAX_GROUPS
              /\ \A i \in Positions :
                    /\ color[i] # 0
                    /\ Cardinality({j \in Positions : color[j] = color[i]}) = GROUP_SIZE
                    /\ \A j \in Positions :
                          color[i] = color[j] <=> cardData[i].groupId = cardData[j].groupId]_vars

\* The board with the group indices of positions i and j exchanged, and with
\* every group index shifted by k: other hidden partitions of the same cards.
SwapGroups(cards, i, j) ==
    [cards EXCEPT ![i].groupId = cards[j].groupId, ![j].groupId = cards[i].groupId]

ShiftGroups(cards, k) ==
    [i \in 1..Len(cards) |-> [cards[i] EXCEPT !.groupId = (@ + k) % MAX_GROUPS]]

OtherPartitions(cards) ==
    {SwapGroups(cards, i, i + 1) : i \in 1..(Len(cards) - 1)}
        \cup {ShiftGroups(cards, k) : k \in 1..(MAX_GROUPS - 1)}

\* C15: what renderBoard and renderSelection show (the progress item of an
\* Incorrect guess lists the names renderSelection shows) is the same for
\* every other hidden partition of the same cards.
C15_GroupHidden ==
    cardData # <<>> =>
        \A other \in OtherPartitions(cardData) :
            /\ RenderBoard(other) = RenderBoard(cardData)
            /\ RenderSelection(other, selected) = RenderSelection(cardData, selected)

C15_Witness ==
    /\ cardData # <<>>
    /\ selected # <<>>
    /\ progress # Null /\ ~progress.ok
    /\ \E i \in Positions : ~cardData[i].locked
    /\ \E other \in OtherPartitions(cardData) :
          \E i \in Positions : ~cardData[i].locked /\ other[i].groupId # cardData[i].groupId

\* C16: the group pushed for a partial evolution bucket of k members is the
\* bucket followed by 4 - k filler identifiers that are pairwise distinct,
\* come from the working pool and are none of the bucket's members.
C16_FillerDistinct ==
    [][(gen[1].pc = "filler" /\ gen'[1].pc = "legend") =>
          LET evoGroup == gen[1].evo
              k == Len(evoGroup)
              pushed == gen'[1].groups[Len(gen'[1].groups)]
              filler == SubSeq(pushed, k + 1, Len(pushed))
          IN  /\ Len(gen'[1].groups) = Len(gen[1].groups) + 1
              /\ SubSeq(pushed, 1, k) = evoGroup
              /\ Len(filler) = GROUP_SIZE - k
              /\ Cardinality(Range(filler)) = Len(filler)
              /\ Range(filler) \subseteq Range(gen[1].pool)
              /\ Range(filler) \cap Range(evoGroup) = {}
              /\ Cardinality(Range(pushed)) = GROUP_SIZE]_vars

\* C17: whenever board entries exist, every entry's groupId is in 0..3 and,
\* for every unlocked entry, the index lockSelection finds in solutions for
\* its name is its groupId.
C17_BoardAgrees ==
    \A i \in Positions :
        /\ cardData[i].groupId \in 0..(MAX_GROUPS - 1)
        /\ ~cardData[i].locked => FindGroup(solutions, cardData[i].name) = cardData[i].groupId

C19_SolutionsFrozen ==
    [][(cardData # <<>> /\ gen' = gen /\ requests' = requests) => solutions' = solutions]_vars

\* The order of the strategies within one call.
StrategyOrder(from, to) ==
    \/ from = "type" /\ to = "evo"
    \/ from = "evo" /\ to \in {"filler", "legend"}
    \/ from = "filler" /\ to = "legend"
    \/ from = "legend" /\ to = "fallback"
    \/ from = "fallback" /\ to \in {"fallback", "metas", "done"}

\* C20: within a call the strategies run in the order type, evolution (with
\* its filler), rarity, fallback loop, the first three once each; a step that
\* pushes a group takes exactly the group's members out of the call's working
\* pool, a step that pushes none leaves the pool as it was; and a step of one
\* call changes no other call's locals.
C20_StrategiesSequential ==
    [][\A g \in 1..MaxRequests :
          LET L == gen[g]
              M == gen'[g]
          IN  (L # M /\ L.pc \in {"type", "evo", "filler", "legend", "fallback"}) =>
                  /\ StrategyOrder(L.pc, M.pc)
                  /\ \A h \in 1..MaxRequests : h # g => gen'[h] = gen[h]
                  /\ poolCache' = poolCache
                  /\ M.pc \in {"evo", "filler", "legend", "fallback"} =>
                        IF Len(M.groups) = Len(L.groups)
                        THEN M.pool = L.pool /\ M.groups = L.groups
                        ELSE LET pushed == M.groups[Len(M.groups)]
                             IN  /\ M.groups = Append(L.groups, pushed)
                                 /\ Range(pushed) \subseteq Range(L.pool)
                                 /\ Range(M.pool) = Range(L.pool) \ Range(pushed)]_vars

C20_Witness ==
    \E g, h \in 1..MaxRequests :
        /\ g # h
        /\ gen[g].pc = "fallback" /\ Len(gen[g].groups) = MAX_GROUPS - 1
        /\ gen[h].pc = "legend" /\ Len(gen[h].groups) = 2
        /\ gen[h].pool # gen[g].pool

\* The primary type a lookup with outcome out[n] reports for n (NoType when
\* it reports none).
TypeSeen(n, out, im) == PrimaryType(FetchPokemonData(n, out[n], im))

\* The position in the sample at which the bucket of type t reaches size
\* (0 when it never does).
ReachedAt(sample, size, out, im, t) ==
    LET at == {i \in 1..Len(sample) :
                  /\ TypeSeen(sample[i], out, im) = t
                  /\ Cardinality({j \in 1..i : TypeSeen(sample[j], out, im) = t}) = size}
    IN  IF at = {} THEN 0 ELSE CHOOSE i \in at : TRUE

\* What C21 says of one call buildTypeGroup(pool, size) that scans sample.
TypeGroupRight(pool, sample, size, out, im) ==
    LET r == BuildTypeGroup(sample, size, out, im)
        shared == {t \in 1..6 :
                      Cardinality({n \in Range(pool) : TypeSeen(n, out, im) = t}) >= size}
    IN  /\ r = Null <=> shared = {}
        /\ r # Null =>
              /\ Len(r) = size /\ Cardinality(Range(r)) = size
              /\ Range(r) \subseteq Range(pool)
              /\ \E t \in shared :
                    /\ \A k \in 1..Len(r) : TypeSeen(r[k], out, im) = t
                    /\ r = Slice(SelectSeq(sample, LAMBDA n : TypeSeen(n, out, im) = t), size)
                    /\ \A u \in shared :
                          ReachedAt(sample, size, out, im, t) <= ReachedAt(sample, size, out, im, u)

\* C21: whenever a call is about to run buildTypeGroup on its working pool,
\* for every scan order and every outcome of the lookups the result is null
\* or four distinct pool identifiers of one primary type, those of the first
\* bucket to reach four in scan order; it is null exactly when no primary
\* type is reported for four pool items; untyped items are never returned.
C21_TypeGroup ==
    gen[1].pc \in {"type", "fallback"} =>
        \A sample \in Shuffles(gen[1].pool, GenShuffles), out \in GenPatterns :
            TypeGroupRight(gen[1].pool, sample, GROUP_SIZE, out, impl)

C21_Witness ==
    /\ gen[1].pc = "fallback"
    /\ Len(gen[1].groups) = 2
    /\ \E out \in GenPatterns : BuildTypeGroup(gen[1].pool, GROUP_SIZE, out, impl) = Null
    /\ \E out \in GenPatterns :
          /\ BuildTypeGroup(gen[1].pool, GROUP_SIZE, out, impl) # Null
          /\ \E n \in Range(gen[1].pool) : TypeSeen(n, out, impl) = NoType

\* The lineage a lookup with outcome out[n] reports for n (NoChain when it
\* reports none).
ChainSeen(n, out, im) == FetchPokemonData(n, out[n], im).evolution_chain

\* The pool members for which lineage c is reported.
Lineage(pool, out, im, c) == {n \in Range(pool) : ChainSeen(n, out, im) = c}

\* What C22 says of one call buildEvolutionGroup(pool, minSize).
EvoGroupRight(pool, minSize, out, im) ==
    LET r == BuildEvolutionGroup(pool, minSize, out, im)
        chains == {ChainSeen(n, out, im) : n \in Range(pool)} \ {NoChain}
        most == IF chains = {} THEN 0
                ELSE LET sizes == {Cardinality(Lineage(pool, out, im, c)) : c \in chains}
                     IN  CHOOSE m \in sizes : \A k \in sizes : k <= m
    IN  /\ most >= minSize => (r # Null /\ Len(r) = minSize)
        /\ (most >= 2 /\ most < minSize) => (r # Null /\ Len(r) \in 2..(minSize - 1))
        /\ most <= 1 => r = Null
        /\ r # Null =>
              /\ Range(r) \subseteq Range(pool)
              /\ Cardinality(Range(r)) = Len(r)
              /\ \E c \in chains : \A k \in 1..Len(r) : ChainSeen(r[k], out, im) = c

\* C22: whenever a call is about to run buildEvolutionGroup on its working
\* pool, for every outcome of the lookups the result is four identifiers of
\* one lineage when a lineage has four members in the pool, else a partial
\* bucket only when a lineage has two or more, and null when every lineage
\* found has one member; what is returned is in the pool and of one lineage.
C22_EvolutionGroup ==
    gen[1].pc = "evo" =>
        \A out \in GenPatterns : EvoGroupRight(gen[1].pool, GROUP_SIZE, out, impl)

\* The listed rare identifiers that are in pool.
RareIn(pool, im) == {n \in Range(LegendaryNames(im)) : Includes(pool, n)}

\* What C23 says of a rarity step that turns the locals L into M.
RarityStepRight(L, M, im) ==
    LET rare == RareIn(L.pool, im)
    IN  IF Cardinality(rare) < 2
        THEN M.pool = L.pool /\ M.groups = L.groups
        ELSE /\ Len(M.groups) = Len(L.groups) + 1
             /\ LET grp == M.groups[Len(M.groups)]
                    pad == Range(grp) \ rare
                IN  /\ M.groups = Append(L.groups, grp)
                    /\ Len(grp) = GROUP_SIZE
                    /\ Cardinality(Range(grp)) = GROUP_SIZE
                    /\ Range(grp) \subseteq Range(L.pool)
                    /\ Cardinality(Range(grp) \cap rare) =
                           (IF Cardinality(rare) < GROUP_SIZE THEN Cardinality(rare)
                            ELSE GROUP_SIZE)
                    /\ \E k \in 0..Len(L.pool) :
                          LET tail == Range(SubSeq(L.pool, k + 1, Len(L.pool)))
                          IN  /\ pad \subseteq tail
                              /\ tail \subseteq Range(grp)
                              /\ M.pool = SelectSeq(SubSeq(L.pool, 1, k),
                                                    LAMBDA n : n \notin Range(grp))
                    /\ Range(M.pool) \cap Range(grp) = {}

\* C23: the rarity step pushes a group exactly when two or more listed rare
\* identifiers are in the working pool; the group has four distinct
\* identifiers, holds the rare ones found (up to four) and is padded only
\* with identifiers popped from the pool's tail, and none of its members stays
\* in the pool; with fewer than two the pool and the groups are unchanged.
C23_RarityStep ==
    [][(gen[1].pc = "legend" /\ gen'[1] # gen[1]) =>
          /\ gen'[1].pc = "fallback"
          /\ RarityStepRight(gen[1], gen'[1], impl)]_vars

\* After a rarity step that found two rare identifiers and padded the group
\* with two identifiers popped from the tail.
C23_Witness ==
    /\ gen[1].pc = "fallback"
    /\ \E k \in 1..Len(gen[1].groups) :
          LET grp == gen[1].groups[k]
          IN  /\ Len(grp) = GROUP_SIZE
              /\ SubSeq(grp, 1, 2) = Slice(LegendaryNames(impl), 2)
              /\ grp[3] \notin Range(LegendaryNames(impl))
              /\ grp[3] > grp[4]

\* The identifiers listed by the scope units in S.
ListedBy(S) == UNION {Range(GenSpecies(u)) : u \in S}

\* C24: in getPoolForGens an answer for unit u either adds the unit's listing
\* or, on a failure (not-OK answer or a throw), adds nothing; in both cases
\* the next unit is queried, the pool is returned only after the last unit,
\* and it is then the duplicate-free union of the listings that succeeded.
C24_FailureSkipped ==
    [][(gen[1].pc = "fetch" /\ gen'[1] # gen[1]) =>
          LET L == gen[1]
              M == gen'[1]
              after == {L.pool, L.pool \o GenSpecies(L.unit)}
          IN  /\ M.pc \in {"fetch", "pool"}
              /\ M.pc = "fetch" => (M.unit = L.unit + 1 /\ M.pool \in after)
              /\ M.pc = "pool" =>
                    /\ L.unit = MAX_GEN
                    /\ M.pool \in {Unique(q) : q \in after}
                    /\ Cardinality(Range(M.pool)) = Len(M.pool)
                    /\ \E S \in SUBSET (1..MAX_GEN) : Range(M.pool) = ListedBy(S)]_vars

\* C25: a new-game request made while the cache holds a pool that is too
\* small for a board (the game built from it has failed) queries the provider
\* again from the first scope unit; the insufficient pool is not reused.
C25_RetryQueriesAgain ==
    [][(requests' = requests + 1 /\ impl = "gens"
            /\ poolCache.set /\ PoolTooSmall(poolCache.names)) =>
          /\ gen'[requests + 1].pc = "fetch"
          /\ gen'[requests + 1].unit = 1]_vars

\* s has no element twice.
NoDuplicates(s) == Cardinality(Range(s)) = Len(s)

\* C26: the cached universe (poolCache, or the GEN1 list) has no duplicates;
\* poolCache is written only by a getPoolForGens call that returns its pool,
\* never by a step of board generation, of whichever call; and a new game
\* starts from the whole universe (GEN1, or the cache as the last pool build
\* left it) however far other generations have got.
C26_UniverseKept ==
    [][/\ NoDuplicates(GEN1)
       /\ poolCache'.set => NoDuplicates(poolCache'.names)
       /\ poolCache' # poolCache =>
             \E g \in 1..MaxRequests :
                 /\ gen[g].pc = "fetch" /\ gen'[g].pc = "pool"
                 /\ poolCache' = [set |-> TRUE, names |-> gen'[g].pool]
       /\ requests' = requests + 1 =>
             LET M == gen'[requests + 1]
             IN  IF impl = "gen1" THEN M.pc = "type" /\ M.pool = GEN1
                 ELSE IF poolCache.set THEN M.pc = "pool" /\ M.pool = poolCache'.names
                 ELSE M.pc = "fetch" /\ M.pool = <<>>]_vars

\* A second call has started from the cached pool after the first call took
\* its four groups out of its own copy.
C26_Witness ==
    /\ impl = "gens"
    /\ gen[1].pc = "metas" /\ gen[1].pool = <<>>
    /\ gen[2].pc = "pool"
    /\ poolCache.set /\ Len(poolCache.names) > MAX_BOARD
    /\ gen[2].pool = poolCache.names

\* C27: whatever the order in which the 16 lookups complete, and whatever
\* their outcomes, the published entry at each board position carries the
\* identifier drawn for that position, the record of the lookup of that
\* identifier, and the index of the identifier's group in solutions.
C27_CompletionOrder ==
    [][(gen[1].pc = "metas" /\ gen'[1].pc = "done") =>
          LET names == gen[1].shuffled
          IN  /\ Len(cardData') = Len(names)
              /\ \A i \in 1..Len(names) :
                    /\ cardData'[i].name = names[i]
                    /\ cardData'[i].metadata \in
                           {FetchPokemonData(names[i], o, impl) : o \in Outcomes}
                    /\ cardData'[i].groupId = FindGroup(solutions, names[i])]_vars

\* A published board whose entries carry records that differ from one
\* another in more than the name (some lookups failed, some did not).
C27_Witness ==
    /\ gen[1].pc = "done"
    /\ Len(cardData) = MAX_BOARD
    /\ \E i, j \in 1..Len(cardData) :
          /\ cardData[i].metadata.types = <<>>
          /\ cardData[j].metadata.types # <<>>
          /\ i < j

\* The records inferHintForGroup finds for names on the board.
MetasOf(cards, names) ==
    [k \in 1..Len(names) |->
        cards[CHOOSE i \in 1..Len(cards) :
                  cards[i].name = names[k]
                  /\ \A j \in 1..(i - 1) : cards[j].name # names[k]].metadata]

\* The description C28 gives for a group with the records metas.
HintByRule(metas) ==
    LET all(f(_)) == \A k \in 1..Len(metas) : f(metas[k]) = f(metas[1])
        era(m) == m.generation
        lineage(m) == m.evolution_chain
    IN  IF PrimaryType(metas[1]) # NoType /\ all(PrimaryType)
        THEN "All are <type> type"
        ELSE IF metas[1].generation # 0 /\ all(era)
        THEN "All from <generation>"
        ELSE IF \A k \in 1..Len(metas) : metas[k].is_legendary
        THEN "All Legendary"
        ELSE IF metas[1].evolution_chain # NoChain /\ all(lineage)
        THEN "Same evolution family"
        ELSE "A shared connection"

\* The lists of names the rules are tried on: the groups of the published
\* board and every pair of its identifiers.
HintInputs(cards) ==
    {GroupMap(cards)[j].names : j \in 1..Len(GroupMap(cards))}
        \cup {<<cards[i].name, cards[j].name>> : i, j \in 1..Len(cards)}

\* C28: on a published board, inferHintForGroup describes a list of names by
\* the first rule that holds: same primary type, else same non-null era, else
\* all with the rarity flag, else same non-null lineage, else the generic
\* text; names of different primary type and one era are described by the era.
C28_HintRuleOrder ==
    (gen[1].pc = "done" /\ cardData # <<>>) =>
        \A names \in HintInputs(cardData) :
            InferHintForGroup(cardData, names) = HintByRule(MetasOf(cardData, names))

====
